---- MODULE Spec2Model ----
(***************************************************************************)
(* State-machine model of swmmtoolbox (src/swmmtoolbox/swmmtoolbox.py):    *)
(* the SwmmExtract session (open, type_check, name_check, update_var_code, *)
(* get_swmm_results, get_dates), the module-level variable-code tables,    *)
(* and the extraction functions extract and fast_extract.                  *)
(*                                                                         *)
(* Conventions.  A Python dict with keys 0..n-1 is a sequence whose        *)
(* element k+1 is the value of key k.  A type argument, which the code     *)
(* accepts as a number or as a string, is a token [int, str]: a number n   *)
(* is [int |-> n, str |-> ""], a string s is [int |-> -1, str |-> s].      *)
(* A 4-byte float is the tuple of its four bytes; an 8-byte date read at   *)
(* the start of period p is the file's p-th date.  A label                 *)
(* "TYPE,NAME,VARINDEX" is the record [type, name, var] of its parts.      *)
(* A raised exception is the name of its class; "" means no exception.     *)
(***************************************************************************)
EXTENDS Integers, Sequences, FiniteSets, TLC

VARIABLES
    VARCODE,      \* module global VARCODE: type number -> labels by code
    VARCODE_OLD,  \* module global VARCODE_OLD
    obj,          \* the SwmmExtract object the caller holds, or NoSession
    labels,       \* the label list the caller is putting together
    last,         \* the most recent call: operation, arguments, outcome
    reads         \* the period-record accesses of the most recent call

vars == <<VARCODE, VARCODE_OLD, obj, labels, last, reads>>

----------------------------------------------------------------------------
(* Program constants *)

RECORDSIZE == 4

MAGIC == 516114522

OLDVERSION == 5100

(* Bounds of the model *)

ALLOCATIONGRANULARITY == 16   \* mmap.ALLOCATIONGRANULARITY, scaled to the model's files

MaxLabels == 2                \* labels per extraction call

MaxAppended == 2              \* labels update_var_code may append in one run, all tables

----------------------------------------------------------------------------
(* Small helpers *)

Max(a, b) == IF a >= b THEN a ELSE b

Range(s) == {s[i] : i \in 1..Len(s)}

\* F applied to the value of v, v being evaluated once
Let(v, F(_)) == CHOOSE y \in {F(x) : x \in {v}} : TRUE

IntTok(n) == [int |-> n, str |-> ""]

StrTok(s) == [int |-> -1, str |-> s]

IsIntTok(t) == t.str = "" /\ t.int >= 0

\* a faulty list.index that answers with the last matching position
IndexOfLast(s, x) ==
    IF \E i \in 1..Len(s) : s[i] = x
    THEN (CHOOSE i \in 1..Len(s) : s[i] = x /\ \A j \in (i+1)..Len(s) : s[j] # x) - 1
    ELSE -1

\* list.index(x): the 0-based position of the first element equal to x, -1 for ValueError
IndexOf(s, x) ==
    IF \E i \in 1..Len(s) : s[i] = x
    THEN (CHOOSE i \in 1..Len(s) : s[i] = x /\ \A j \in 1..(i-1) : s[j] # x) - 1
    ELSE -1

----------------------------------------------------------------------------
(* The module-level tables as the module is imported *)

VARCODE_INIT ==
    (0 :> <<"Rainfall", "Snow_depth", "Evaporation_loss", "Infiltration_loss",
            "Runoff_rate", "Groundwater_outflow", "Groundwater_elevation",
            "Soil_moisture", "Pollutant_washoff">>) @@
    (1 :> <<"Depth_above_invert", "Hydraulic_head", "Volume_stored_ponded",
            "Lateral_inflow", "Total_inflow", "Flow_lost_flooding">>) @@
    (2 :> <<"Flow_rate", "Flow_depth", "Flow_velocity", "Froude_number",
            "Capacity">>) @@
    (4 :> <<"Air_temperature", "Rainfall", "Snow_depth",
            "Evaporation_infiltration", "Runoff", "Dry_weather_inflow",
            "Groundwater_inflow", "RDII_inflow", "User_direct_inflow",
            "Total_lateral_inflow", "Flow_lost_to_flooding",
            "Flow_leaving_outfalls", "Volume_stored_water",
            "Evaporation_rate", "Potential_PET">>)

VARCODE_OLD_INIT ==
    (0 :> <<"Rainfall", "Snow_depth", "Evaporation_loss", "Runoff_rate",
            "Groundwater_outflow", "Groundwater_elevation">>) @@
    (1 :> <<"Depth_above_invert", "Hydraulic_head", "Volume_stored_ponded",
            "Lateral_inflow", "Total_inflow", "Flow_lost_flooding">>) @@
    (2 :> <<"Flow_rate", "Flow_depth", "Flow_velocity", "Froude_number",
            "Capacity">>) @@
    (4 :> <<"Air_temperature", "Rainfall", "Snow_depth",
            "Evaporation_infiltration", "Runoff", "Dry_weather_inflow",
            "Groundwater_inflow", "RDII_inflow", "User_direct_inflow",
            "Total_lateral_inflow", "Flow_lost_to_flooding",
            "Flow_leaving_outfalls", "Volume_stored_water",
            "Evaporation_rate">>)

\* the table a session's self.varcode refers to
Table(ref, vc, vco) == IF ref = "VARCODE_OLD" THEN vco ELSE vc

----------------------------------------------------------------------------
(* The output files on disk.  A file is its decoded fields: the trailer    *)
(* (Namesstartpos, offset0, startpos, nperiods, errcode, magic2), magic1,  *)
(* the header (version, flowunits, the four counts), the name tables, the  *)
(* variable-code lists, and the dates of its periods as [days, msec]       *)
(* (milliseconds of the day).  Its bytes are given by FileByte.            *)

BaseFile ==
    [magic1 |-> MAGIC, magic2 |-> MAGIC, errcode |-> 0,
     Namesstartpos |-> 28, offset0 |-> 28, startpos |-> 30, nperiods |-> 2,
     version |-> 51000, flowunits |-> 0,
     nsubcatch |-> 1, nnodes |-> 3, nlinks |-> 1, npolluts |-> 0,
     names |-> <<(<<"A">>), <<"A", "B", "B">>, (<<"B">>), <<>> >>,
     vars |-> << <<0, 1>>, <<0, 1>>, <<0, 1>>, <<0, 1>> >>,
     dates |-> << [days |-> 43000, msec |-> 0],
                  [days |-> 43000, msec |-> 299999] >>,
     seed |-> 3]

OldFile ==
    [BaseFile EXCEPT !.version = 5022, !.startpos = 24, !.npolluts = 0,
                     !.nnodes = 2,
                     !.names = <<(<<"A">>), <<"A", "B">>, (<<"B">>), <<>> >>,
                     !.vars = << <<0, 1, 2, 3>>, <<0, 1>>, <<0, 1>>, <<0, 1>> >>,
                     !.dates = << [days |-> 40000, msec |-> 86399000],
                                  [days |-> 40001, msec |-> 600001] >>,
                     !.seed = 101]

\* one link with five native variables and the concentration of one pollutant
PollFile ==
    [BaseFile EXCEPT !.startpos = 26, !.nsubcatch = 0, !.nnodes = 0, !.npolluts = 1,
                     !.names = << <<>>, <<>>, (<<"B">>), (<<"P">>) >>,
                     !.vars = << <<>>, <<>>, <<0, 1, 2, 3, 4, 5>>, <<0, 1>> >>,
                     !.dates = << [days |-> 43000, msec |-> 61000],
                                  [days |-> 43000, msec |-> 125500] >>,
                     !.seed = 57]

\* a second file with one pollutant, of another name
PollFile2 == [PollFile EXCEPT !.names[4] = <<"Q">>, !.seed = 101]

Disk ==
    [name \in {"new.out", "old.out", "poll.out", "poll2.out", "neg.out", "magic1.out",
               "magic2.out", "errcode.out", "zero.out"} |->
        CASE name = "new.out"     -> BaseFile
          [] name = "old.out"     -> OldFile
          [] name = "poll.out"    -> PollFile
          [] name = "poll2.out"   -> PollFile2
          [] name = "neg.out"     -> [BaseFile EXCEPT !.nperiods = -1, !.dates = <<>>]
          [] name = "magic1.out"  -> [BaseFile EXCEPT !.magic1 = MAGIC + 1]
          [] name = "magic2.out"  -> [OldFile EXCEPT !.magic2 = 0]
          [] name = "errcode.out" -> [BaseFile EXCEPT !.errcode = 1]
          [] name = "zero.out"    -> [OldFile EXCEPT !.nperiods = 0, !.dates = <<>>]]

\* the files the caller of SwmmExtract and listvariables names
FileNames == DOMAIN Disk \ {"poll2.out"}

\* bytes of one period record of file f, as the simulator wrote it
FileRecordBytes(f) ==
    RECORDSIZE * (2 + f.nsubcatch * Len(f.vars[1]) + f.nnodes * Len(f.vars[2])
                    + f.nlinks * Len(f.vars[3]) + Len(f.vars[4]))

FileSize(f) == f.startpos + Max(f.nperiods, 0) * FileRecordBytes(f) + 6 * RECORDSIZE

FileByte(f, pos) == (f.seed + pos) % 256

\* struct.unpack('f', read(4)) at pos, and the same four bytes seen through a mapping
FloatAt(f, pos) == [i \in 1..RECORDSIZE |-> FileByte(f, pos + i - 1)]

\* struct.unpack('d', read(8)) at the start of period p
DateAt(f, p) == f.dates[p + 1]

----------------------------------------------------------------------------
(* SwmmExtract.__init__ *)

NoSession == [fp |-> ""]

itemlist == <<"subcatchment", "node", "link", "pollutant", "system">>

\* the first exception __init__ raises on file f, "" when it raises none
InitError(f, vc, vco) ==
    LET table == IF f.version < OLDVERSION THEN vco ELSE vc IN
    CASE f.magic1 # MAGIC -> "ValueError"
      [] f.magic1 = MAGIC /\ f.magic2 # MAGIC -> "ValueError"
      [] f.magic1 = MAGIC /\ f.magic2 = MAGIC /\ f.errcode # 0 -> "ValueError"
      [] f.magic1 = MAGIC /\ f.magic2 = MAGIC /\ f.errcode = 0 /\ f.nperiods = 0
            -> "ValueError"
      [] OTHER -> IF \E i \in 1..Len(f.vars[4]) : f.vars[4][i] + 1 \notin 1..Len(table[4])
                  THEN "KeyError" ELSE ""

\* a faulty bytesperperiod that leaves the 8-byte date out of the record
BytesPerPeriodNoDate(nsubcatch, nsubcatchvars, nnodes, nnodevars, nlinks, nlinkvars, nsystemvars) ==
    RECORDSIZE * (nsubcatch * nsubcatchvars + nnodes * nnodevars
                    + nlinks * nlinkvars + nsystemvars)

\* self.bytesperperiod as __init__ computes it
BytesPerPeriod(nsubcatch, nsubcatchvars, nnodes, nnodevars, nlinks, nlinkvars, nsystemvars) ==
    RECORDSIZE * (2 + nsubcatch * nsubcatchvars + nnodes * nnodevars
                    + nlinks * nlinkvars + nsystemvars)

\* the object __init__ builds from file fname when it raises nothing
NewSession(fname, vc, vco) ==
    LET f == Disk[fname]
        ref == IF f.version < OLDVERSION THEN "VARCODE_OLD" ELSE "VARCODE"
        table == Table(ref, vc, vco)
        number_list == <<f.nsubcatch, f.nnodes, f.nlinks, f.npolluts>>
    IN  [fp |-> fname,
         RECORDSIZE |-> RECORDSIZE,
         Namesstartpos |-> f.Namesstartpos,
         offset0 |-> f.offset0,
         startpos |-> f.startpos,
         swmm_nperiods |-> f.nperiods,
         swmm_flowunits |-> f.flowunits,
         swmm_nsubcatch |-> f.nsubcatch,
         swmm_nnodes |-> f.nnodes,
         swmm_nlinks |-> f.nlinks,
         swmm_npolluts |-> f.npolluts,
         varcode |-> ref,
         names |-> [k \in 0..4 |->
                       IF k < 4 THEN SubSeq(f.names[k + 1], 1, number_list[k + 1])
                       ELSE [i \in 1..Len(f.vars[4]) |-> table[4][f.vars[4][i] + 1]]],
         vars |-> [k \in 0..4 |->
                       CASE k = 3 -> <<0>>
                         [] k = 4 -> f.vars[4]
                         [] OTHER -> f.vars[k + 1]],
         swmm_nsubcatchvars |-> Len(f.vars[1]),
         nnodevars |-> Len(f.vars[2]),
         nlinkvars |-> Len(f.vars[3]),
         nsystemvars |-> Len(f.vars[4]),
         bytesperperiod |-> BytesPerPeriod(f.nsubcatch, Len(f.vars[1]), f.nnodes,
                                           Len(f.vars[2]), f.nlinks, Len(f.vars[3]),
                                           Len(f.vars[4])),
         itemtype |-> -1]

\* the Geometry of a session: counts, variable counts, start offsets, periods, record size
Geometry(o) ==
    [RECORDSIZE |-> o.RECORDSIZE,
     counts |-> <<o.swmm_nsubcatch, o.swmm_nnodes, o.swmm_nlinks, o.swmm_npolluts>>,
     varcounts |-> <<o.swmm_nsubcatchvars, o.nnodevars, o.nlinkvars, o.nsystemvars>>,
     Namesstartpos |-> o.Namesstartpos, offset0 |-> o.offset0, startpos |-> o.startpos,
     swmm_nperiods |-> o.swmm_nperiods,
     bytesperperiod |-> o.bytesperperiod]

\* the Catalog of a session: names, variable codes, and the code-to-label table it uses
Catalog(o, vc, vco) ==
    [names |-> o.names, vars |-> o.vars, varcode |-> Table(o.varcode, vc, vco)]

Snapshot(o, vc, vco) ==
    IF o = NoSession THEN NoSession
    ELSE [fp |-> o.fp, geometry |-> Geometry(o), catalog |-> Catalog(o, vc, vco)]

----------------------------------------------------------------------------
(* SwmmExtract methods, as operators on the object o and the tables *)

\* type_check: [exc, ret]
type_check(o, itemtype) ==
    IF IsIntTok(itemtype) /\ itemtype.int \in {0, 1, 2, 3, 4}
    THEN [exc |-> "", ret |-> itemtype.int]
    ELSE IF ~IsIntTok(itemtype) /\ IndexOf(itemlist, itemtype.str) >= 0
         THEN [exc |-> "", ret |-> IndexOf(itemlist, itemtype.str)]
         ELSE [exc |-> "ValueError", ret |-> -1]

\* name_check: [exc, ret (the item index), itemtype (self.itemtype afterwards)]
name_check(o, itemtype, itemname) ==
    LET tc == type_check(o, itemtype) IN
    IF tc.exc # ""
    THEN [exc |-> tc.exc, ret |-> -1, itemtype |-> o.itemtype]
    ELSE LET itemindex == IndexOf(o.names[tc.ret], itemname) IN
         IF itemindex < 0
         THEN [exc |-> "ValueError", ret |-> -1, itemtype |-> tc.ret]
         ELSE [exc |-> "", ret |-> itemindex, itemtype |-> tc.ret]

\* update_var_code: [exc, table (the table self.varcode refers to, afterwards)]
update_var_code(o, table, typenumber) ==
    IF typenumber \notin DOMAIN table
    THEN [exc |-> "KeyError", table |-> table]
    ELSE [exc |-> "",
          table |-> [table EXCEPT ![typenumber] = table[typenumber] \o o.names[3]]]

\* a faulty value offset that steps over items in the system block too
ValueOffsetSystemItems(o, itemtype, itemindex, variableindex, date_offset) ==
    LET skip == date_offset + 2 * o.RECORDSIZE
        before == o.swmm_nsubcatch * o.swmm_nsubcatchvars
        byType ==
            CASE itemtype = 0 -> itemindex * o.swmm_nsubcatchvars
              [] itemtype = 1 -> before + itemindex * o.nnodevars
              [] itemtype = 2 -> before + o.swmm_nnodes * o.nnodevars
                                        + itemindex * o.nlinkvars
              [] itemtype = 4 -> before + o.swmm_nnodes * o.nnodevars
                                        + o.swmm_nlinks * o.nlinkvars
                                        + itemindex * o.nsystemvars
              [] OTHER -> 0
    IN  skip + o.RECORDSIZE * byType + o.RECORDSIZE * variableindex

\* the byte offset get_swmm_results computes for the value, from the date offset
ValueOffset(o, itemtype, itemindex, variableindex, date_offset) ==
    LET skip == date_offset + 2 * o.RECORDSIZE
        byType ==
            CASE itemtype = 0 ->
                   skip + o.RECORDSIZE * (itemindex * o.swmm_nsubcatchvars)
              [] itemtype = 1 ->
                   skip + o.RECORDSIZE * (o.swmm_nsubcatch * o.swmm_nsubcatchvars +
                                          itemindex * o.nnodevars)
              [] itemtype = 2 ->
                   skip + o.RECORDSIZE * (o.swmm_nsubcatch * o.swmm_nsubcatchvars +
                                          o.swmm_nnodes * o.nnodevars +
                                          itemindex * o.nlinkvars)
              [] itemtype = 4 ->
                   skip + o.RECORDSIZE * (o.swmm_nsubcatch * o.swmm_nsubcatchvars +
                                          o.swmm_nnodes * o.nnodevars +
                                          o.swmm_nlinks * o.nlinkvars)
              [] OTHER -> skip
    IN  byType + o.RECORDSIZE * variableindex

DateOffset(o, period) == o.startpos + period * o.bytesperperiod

\* get_swmm_results: [exc, date, value, reads, itemtype]
get_swmm_results(o, itemtype, name, variableindex, period) ==
    IF ~(IsIntTok(itemtype) /\ itemtype.int \in {0, 1, 2, 4})
    THEN [exc |-> "ValueError", date |-> <<>>, value |-> <<>>, reads |-> <<>>,
          itemtype |-> o.itemtype]
    ELSE LET nc == name_check(o, itemtype, name) IN
         IF nc.exc # ""
         THEN [exc |-> nc.exc, date |-> <<>>, value |-> <<>>, reads |-> <<>>,
               itemtype |-> nc.itemtype]
         ELSE LET date_offset == DateOffset(o, period)
                  offset == ValueOffset(o, itemtype.int, nc.ret, variableindex,
                                        date_offset)
              IN  [exc |-> "",
                   date |-> DateAt(Disk[o.fp], period),
                   value |-> FloatAt(Disk[o.fp], offset),
                   reads |-> << [pos |-> date_offset, n |-> 2 * o.RECORDSIZE],
                                [pos |-> offset, n |-> o.RECORDSIZE] >>,
                   itemtype |-> nc.itemtype]

\* get_dates: [exc, ret (days of the first and last period), reads]
get_dates(o) ==
    IF o.swmm_nperiods <= 0
    THEN [exc |-> "IndexError", ret |-> <<>>, reads |-> <<>>]
    ELSE LET periods == <<0, o.swmm_nperiods - 1>> IN
         [exc |-> "",
          ret |-> [i \in 1..2 |-> DateAt(Disk[o.fp], periods[i]).days],
          reads |-> [i \in 1..2 |-> [pos |-> DateOffset(o, periods[i]),
                                     n |-> 2 * o.RECORDSIZE]]]

----------------------------------------------------------------------------
(* extract *)

RECURSIVE Flatten(_)
Flatten(ss) == IF ss = <<>> THEN <<>> ELSE Head(ss) \o Flatten(Tail(ss))

\* a faulty conversion that takes the whole seconds as they are
ExtractTimestampUncorrected(date) ==
    [days |-> date.days, msec |-> (date.msec \div 1000) * 1000]

\* the timestamp extract builds from a date: whole seconds, with the correction by
\* one second when the seconds end in 9 or in 1; timedelta carries 86400 s into a day
ExtractTimestamp(date) ==
    LET days == date.days
        seconds == date.msec \div 1000
        extra == seconds % 10
        fixed == IF extra = 9 THEN seconds + 1
                 ELSE IF extra = 1 THEN seconds - 1 ELSE seconds
    IN  [days |-> days + (fixed \div 86400), msec |-> (fixed % 86400) * 1000]

\* one turn of extract's loop over the labels, on object o whose table is table:
\* [exc, table, itemtype, reads, col]
ExtractLabel(o, table, label) ==
    LET tc == type_check(o, StrTok(label.type))
        nc == name_check(o, StrTok(label.type), label.name)
        uv == update_var_code(o, table, tc.ret)
        o2 == [o EXCEPT !.itemtype = nc.itemtype]
        none == [label |-> <<>>, index |-> <<>>, values |-> <<>>]
        results(res) ==
            IF \E p \in DOMAIN res : res[p].exc # ""
            THEN [exc |-> "ValueError", table |-> uv.table, itemtype |-> nc.itemtype,
                  reads |-> <<>>, col |-> none]
            ELSE IF label.var + 1 \notin 1..Len(uv.table[tc.ret])
            THEN [exc |-> "KeyError", table |-> uv.table, itemtype |-> nc.itemtype,
                  reads |-> Flatten([p \in DOMAIN res |-> res[p].reads]), col |-> none]
            ELSE [exc |-> "", table |-> uv.table, itemtype |-> nc.itemtype,
                  reads |-> Flatten([p \in DOMAIN res |-> res[p].reads]),
                  col |-> [label |-> <<label.type, label.name,
                                       uv.table[tc.ret][label.var + 1]>>,
                           index |-> [p \in DOMAIN res |-> ExtractTimestamp(res[p].date)],
                           values |-> [p \in DOMAIN res |-> res[p].value]]]
    IN  IF tc.exc # ""
        THEN [exc |-> tc.exc, table |-> table, itemtype |-> o.itemtype,
              reads |-> <<>>, col |-> none]
        ELSE IF nc.exc # ""
        THEN [exc |-> nc.exc, table |-> table, itemtype |-> nc.itemtype,
              reads |-> <<>>, col |-> none]
        ELSE IF uv.exc # ""
        THEN [exc |-> uv.exc, table |-> table, itemtype |-> nc.itemtype,
              reads |-> <<>>, col |-> none]
        ELSE Let([p \in 1..Max(o.swmm_nperiods, 0) |->
                     get_swmm_results(o2, IntTok(tc.ret), label.name, label.var, p - 1)],
                 results)

\* extract's loop from label i on: st is [exc, table, itemtype, reads, cols]
RECURSIVE ExtractLoop(_, _, _, _)
ExtractLoop(o, lbls, i, st) ==
    LET turn(r) ==
            [exc |-> r.exc, table |-> r.table, itemtype |-> r.itemtype,
             reads |-> st.reads \o r.reads,
             cols |-> IF r.exc = "" THEN Append(st.cols, r.col) ELSE st.cols]
        rest(st2) == ExtractLoop(o, lbls, i + 1, st2)
    IN  IF i > Len(lbls) \/ st.exc # "" THEN st
        ELSE Let(Let(ExtractLabel([o EXCEPT !.itemtype = st.itemtype], st.table, lbls[i]),
                     turn),
                 rest)

\* extract(filename, *labels) after a successful open: [exc, table, itemtype, reads, ret]
\* pd.concat raises ValueError on no labels; the result keeps the first column's index
extract(o, table, lbls) ==
    LET result(st) ==
            IF st.exc # ""
            THEN [exc |-> st.exc, table |-> st.table, itemtype |-> st.itemtype,
                  reads |-> st.reads, ret |-> <<>>]
            ELSE IF st.cols = <<>>
            THEN [exc |-> "ValueError", table |-> st.table, itemtype |-> st.itemtype,
                  reads |-> st.reads, ret |-> <<>>]
            ELSE [exc |-> "", table |-> st.table, itemtype |-> st.itemtype,
                  reads |-> st.reads,
                  ret |-> [index |-> st.cols[1].index,
                           columns |-> [k \in DOMAIN st.cols |-> st.cols[k].label],
                           data |-> [k \in DOMAIN st.cols |-> st.cols[k].values]]]
    IN  Let(ExtractLoop(o, lbls, 1,
                [exc |-> "", table |-> table, itemtype |-> o.itemtype,
                 reads |-> <<>>, cols |-> <<>>]),
            result)

----------------------------------------------------------------------------
(* fast_extract *)

namemap == (0 :> "subcatchment") @@ (1 :> "node") @@ (2 :> "link") @@ (4 :> "system")

\* itypename.map({v: k for k, v in namemap.items()}): the type number, -1 for NaN
InverseNamemap(typename) ==
    IF \E k \in DOMAIN namemap : namemap[k] = typename
    THEN CHOOSE k \in DOMAIN namemap : namemap[k] = typename
    ELSE -1

\* a type read back from the itypes array, as name_check receives it
TypeTok(itype) == IF itype = -1 THEN StrTok("nan") ELSE IntTok(itype)

typemap(o) ==
    (0 :> 0) @@
    (1 :> o.RECORDSIZE * o.swmm_nsubcatch * o.swmm_nsubcatchvars) @@
    (2 :> o.RECORDSIZE * o.swmm_nsubcatch * o.swmm_nsubcatchvars +
          o.RECORDSIZE * o.swmm_nnodes * o.nnodevars) @@
    (4 :> o.RECORDSIZE * o.swmm_nsubcatch * o.swmm_nsubcatchvars +
          o.RECORDSIZE * o.swmm_nnodes * o.nnodevars +
          o.RECORDSIZE * o.swmm_nlinks * o.nlinkvars)

varmap(o) ==
    (0 :> o.swmm_nsubcatchvars) @@ (1 :> o.nnodevars) @@ (2 :> o.nlinkvars) @@
    (4 :> o.nsystemvars)

\* the loop of name_check over the requests: [exc, itemtype, itemindices]
RECURSIVE NameCheckLoop(_, _, _, _)
NameCheckLoop(o, lbls, i, st) ==
    IF i > Len(lbls) \/ st.exc # "" THEN st
    ELSE LET nc == name_check([o EXCEPT !.itemtype = st.itemtype],
                              TypeTok(InverseNamemap(lbls[i].type)), lbls[i].name)
         IN  NameCheckLoop(o, lbls, i + 1,
                 [exc |-> nc.exc, itemtype |-> nc.itemtype,
                  itemindices |-> IF nc.exc = "" THEN Append(st.itemindices, nc.ret)
                                  ELSE st.itemindices])

\* all_offsets: the offset of each request's value within a record, after the date
AllOffsets(o, lbls, itemindices) ==
    [k \in DOMAIN lbls |->
        LET itype == InverseNamemap(lbls[k].type) IN
        typemap(o)[itype] + itemindices[k] * varmap(o)[itype] * o.RECORDSIZE
                          + lbls[k].var * o.RECORDSIZE]

\* the length of bool_mask
MaskLength(o) == o.bytesperperiod - 2

\* numpy indexing of an array of length n: a negative index counts from the end
WrapIndex(i, n) == IF i < 0 THEN i + n ELSE i

IndexInBounds(i, n) == i >= -n /\ i < n

\* the positions bool_mask has set once the loop over range(RECORDSIZE) is done
BoolMask(o, all_offsets) ==
    {WrapIndex(all_offsets[k] + i, MaskLength(o)) :
        k \in DOMAIN all_offsets, i \in 0..(o.RECORDSIZE - 1)}

\* whether record_mask[all_offsets] = 1 or bool_mask[all_offsets + i] = 1 raises
MaskIndexError(o, all_offsets) ==
    \E k \in DOMAIN all_offsets, i \in 0..(o.RECORDSIZE - 1) :
        ~IndexInBounds(all_offsets[k] + i, MaskLength(o))

\* the elements of a finite set of numbers, ascending
RECURSIVE Ascending(_)
Ascending(S) ==
    IF S = {} THEN <<>>
    ELSE LET m == CHOOSE x \in S : \A y \in S : x <= y
         IN  <<m>> \o Ascending(S \ {m})

\* offsets[p]: where the values of period p start
Offsets(o, p) == DateOffset(o, p) + 2 * o.RECORDSIZE

\* the window with its start left at the payload start, not aligned down
WindowUnaligned(o, p) ==
    LET mmap_offset == Offsets(o, p)
        mmap_endpoint == Offsets(o, p + 1) - 2
    IN  [mmap_offset |-> mmap_offset,
         mmap_length |-> mmap_endpoint - mmap_offset,
         mmap_start_gap |-> Offsets(o, p) - mmap_offset,
         mmap_end_gap |-> mmap_endpoint - (Offsets(o, p + 1) - 2)]

\* the window mapped for period p: [mmap_offset, mmap_length, mmap_start_gap, mmap_end_gap]
Window(o, p) ==
    LET mmap_offset == ALLOCATIONGRANULARITY * (Offsets(o, p) \div ALLOCATIONGRANULARITY)
        mmap_endpoint == Offsets(o, p + 1) - 2
    IN  [mmap_offset |-> mmap_offset,
         mmap_length |-> mmap_endpoint - mmap_offset,
         mmap_start_gap |-> Offsets(o, p) - mmap_offset,
         mmap_end_gap |-> mmap_endpoint - (Offsets(o, p + 1) - 2)]

\* the positions np.pad leaves set in mmap_bool_mask, ascending
PaddedMask(o, mask, p) == Ascending({Window(o, p).mmap_start_gap + m : m \in mask})

PaddedMaskLength(o, p) ==
    Window(o, p).mmap_start_gap + MaskLength(o) + Window(o, p).mmap_end_gap

\* mmap.mmap raises when the window does not lie within the file
MmapError(o, p) ==
    Window(o, p).mmap_offset + Window(o, p).mmap_length > FileSize(Disk[o.fp])

\* records for period p: the bytes the mask picks from the window, in fours
Records(o, mask, p) ==
    LET w == Window(o, p)
        picked == PaddedMask(o, mask, p)
        bytes == [j \in DOMAIN picked |-> FileByte(Disk[o.fp], w.mmap_offset + picked[j])]
    IN  [k \in 1..(Len(bytes) \div o.RECORDSIZE) |->
            [i \in 1..o.RECORDSIZE |-> bytes[(k - 1) * o.RECORDSIZE + i]]]

\* item_name_map: the name of the first request that resolved to item index ix
ItemNameMap(lbls, itemindices, ix) ==
    lbls[CHOOSE k \in DOMAIN lbls :
            itemindices[k] = ix /\ \A j \in 1..(k - 1) : itemindices[j] # ix].name

\* the label of request k: the three Series are added by index label, so each request
\* gets its own type name, the name item_name_map has for its item index, and the
\* label the module-level VARCODE has for its variable ("nan" when it has none)
Heading(vc, lbls, itemindices, k) ==
    LET itype == InverseNamemap(lbls[k].type) IN
    <<namemap[itype],
      ItemNameMap(lbls, itemindices, itemindices[k]),
      IF lbls[k].var + 1 \in 1..Len(vc[itype]) THEN vc[itype][lbls[k].var + 1]
      ELSE "nan">>

\* pd.to_datetime(dates, unit='d', origin=begindate): the date as it is stored
BulkTimestamp(date) == [days |-> date.days, msec |-> date.msec]

\* fast_extract(filename, *labels) after a successful open, vc the module-level
\* VARCODE: [exc, itemtype, reads, ret]
fast_extract(o, vc, lbls) ==
    LET chk == NameCheckLoop(o, lbls, 1,
                   [exc |-> "", itemtype |-> o.itemtype, itemindices |-> <<>>])
        all_offsets == AllOffsets(o, lbls, chk.itemindices)
        mask == BoolMask(o, all_offsets)
        nper == Max(o.swmm_nperiods, 0)
        maps == [p \in 1..nper |-> [pos |-> Window(o, p - 1).mmap_offset,
                                    n |-> Window(o, p - 1).mmap_length]]
        ts == [p \in 1..nper |-> Records(o, mask, p - 1)]
        datereads == [p \in 1..nper |-> [pos |-> DateOffset(o, p - 1),
                                         n |-> 2 * o.RECORDSIZE]]
        headings == [k \in DOMAIN lbls |-> Heading(vc, lbls, chk.itemindices, k)]
        fail(e, rd) == [exc |-> e, itemtype |-> chk.itemtype, reads |-> rd, ret |-> <<>>]
    IN  IF chk.exc # "" THEN fail(chk.exc, <<>>)
        ELSE IF MaskIndexError(o, all_offsets) THEN fail("IndexError", <<>>)
        ELSE IF \E p \in 1..nper : MmapError(o, p - 1)
        THEN fail("ValueError",
                  SubSeq(maps, 1, (CHOOSE p \in 1..nper : MmapError(o, p - 1) /\
                                      \A q \in 1..(p - 1) : ~MmapError(o, q - 1)) - 1))
        ELSE IF nper > 0 /\ Cardinality(mask) % o.RECORDSIZE # 0
        THEN fail("ValueError", SubSeq(maps, 1, 1))
        ELSE IF nper = 0 THEN fail("ValueError", maps \o datereads)
        ELSE IF Cardinality(mask) \div o.RECORDSIZE # Len(headings)
        THEN fail("ValueError", maps \o datereads)
        ELSE [exc |-> "", itemtype |-> chk.itemtype, reads |-> maps \o datereads,
              ret |-> [index |-> [p \in 1..nper |->
                                     BulkTimestamp(DateAt(Disk[o.fp], p - 1))],
                       columns |-> headings,
                       data |-> [k \in DOMAIN headings |->
                                    [p \in 1..nper |-> ts[p][k]]]]]

----------------------------------------------------------------------------
(* listvariables *)

\* listvariables' loop from the i-th of its four types on: st is [exc, table, collect]
RECURSIVE ListLoop(_, _, _)
ListLoop(o, i, st) ==
    LET types == <<"subcatchment", "node", "link", "system">>
        typenumber == type_check(o, StrTok(types[i])).ret
        codes == o.vars[typenumber]
        rest(st2) == ListLoop(o, i + 1, st2)
        turn(uv) ==
            IF \E j \in DOMAIN codes : codes[j] + 1 \notin 1..Len(uv.table[typenumber])
            THEN [exc |-> "KeyError", table |-> uv.table, collect |-> st.collect]
            ELSE [exc |-> "", table |-> uv.table,
                  collect |-> st.collect \o
                      [j \in DOMAIN codes |->
                          <<types[i], uv.table[typenumber][codes[j] + 1], codes[j]>>]]
    IN  IF i > Len(types) \/ st.exc # "" THEN st
        ELSE Let(Let(update_var_code(o, st.table, typenumber), turn), rest)

listvariables(o, table) == ListLoop(o, 1, [exc |-> "", table |-> table, collect |-> <<>>])

----------------------------------------------------------------------------
(* The inputs of the model *)

TypeTokens ==
    {IntTok(n) : n \in 0..5} \cup {StrTok(s) : s \in {"link", "system", "bogus"}}

Names == {"A", "B", "P", "Rainfall"}

\* the types and names passed to get_swmm_results
ResultTypes == {IntTok(n) : n \in 0..4} \cup {StrTok("node")}

ResultNames == {"A", "B", "Rainfall"}

\* the type numbers passed to update_var_code: link, and pollutant, which has no table
UpdateTypes == {2, 3}

VarIndices == {0, 1, 2}

\* the labels a caller may pass to extract and fast_extract
Labels ==
    { [type |-> "node", name |-> "A", var |-> 0],
      [type |-> "node", name |-> "B", var |-> 0],
      [type |-> "node", name |-> "A", var |-> 1],
      [type |-> "link", name |-> "B", var |-> 0],
      [type |-> "link", name |-> "B", var |-> 5],
      [type |-> "link", name |-> "A", var |-> 0],
      [type |-> "subcatchment", name |-> "A", var |-> 3],
      [type |-> "system", name |-> "Air_temperature", var |-> 1],
      [type |-> "system", name |-> "Rainfall", var |-> 0],
      [type |-> "pollutant", name |-> "P", var |-> 0] }

\* labels the tables hold beyond those they are imported with
Appended(vc, vco) ==
    LET more(t, t0) ==
            (Len(t[0]) - Len(t0[0])) + (Len(t[1]) - Len(t0[1])) +
            (Len(t[2]) - Len(t0[2])) + (Len(t[4]) - Len(t0[4]))
    IN  more(vc, VARCODE_INIT) + more(vco, VARCODE_OLD_INIT)

\* the tables after the table a session refers to has become table
WithTable(o, table, vc, vco) ==
    IF o.varcode = "VARCODE_OLD" THEN <<vc, table>> ELSE <<table, vco>>

NoCall == [op |-> "none", file |-> "", args |-> <<>>, exc |-> "", ret |-> <<>>,
           session |-> NoSession, opened |-> NoSession]

Call(op, file, args, exc, ret) ==
    [op |-> op, file |-> file, args |-> args, exc |-> exc, ret |-> ret,
     session |-> NoSession, opened |-> NoSession]

----------------------------------------------------------------------------
(* The state machine *)

Init ==
    /\ VARCODE = VARCODE_INIT
    /\ VARCODE_OLD = VARCODE_OLD_INIT
    /\ obj = NoSession
    /\ labels = <<>>
    /\ last = NoCall
    /\ reads = <<>>

\* obj = SwmmExtract(filename)
Open(fname) ==
    /\ \E e \in {InitError(Disk[fname], VARCODE, VARCODE_OLD)} :
          IF e # ""
          THEN /\ last' = Call("open", fname, <<>>, e, NoSession)
               /\ UNCHANGED obj
          ELSE \E o \in {NewSession(fname, VARCODE, VARCODE_OLD)} :
                  /\ obj' = o
                  /\ last' = [Call("open", fname, <<>>, e, o)
                              EXCEPT !.opened = Snapshot(o, VARCODE, VARCODE_OLD)]
    /\ reads' = <<>>
    /\ UNCHANGED <<VARCODE, VARCODE_OLD, labels>>

\* obj.type_check(itemtype)
TypeCheck(itemtype) ==
    /\ obj # NoSession
    /\ \E r \in {type_check(obj, itemtype)} :
          last' = Call("type_check", obj.fp, <<itemtype>>, r.exc, r.ret)
    /\ reads' = <<>>
    /\ UNCHANGED <<VARCODE, VARCODE_OLD, obj, labels>>

\* obj.name_check(itemtype, itemname)
NameCheck(itemtype, itemname) ==
    /\ obj # NoSession
    /\ \E r \in {name_check(obj, itemtype, itemname)} :
          /\ obj' = [obj EXCEPT !.itemtype = r.itemtype]
          /\ last' = Call("name_check", obj.fp, <<itemtype, itemname>>, r.exc,
                          IF r.exc = "" THEN <<itemname, r.ret>> ELSE <<>>)
    /\ reads' = <<>>
    /\ UNCHANGED <<VARCODE, VARCODE_OLD, labels>>

\* obj.update_var_code(typenumber)
UpdateVarCode(typenumber) ==
    /\ obj # NoSession
    /\ \E r \in {update_var_code(obj, Table(obj.varcode, VARCODE, VARCODE_OLD),
                                  typenumber)} :
       \E t \in {WithTable(obj, r.table, VARCODE, VARCODE_OLD)} :
          /\ Appended(t[1], t[2]) <= MaxAppended
          /\ VARCODE' = t[1]
          /\ VARCODE_OLD' = t[2]
          /\ last' = Call("update_var_code", obj.fp, <<typenumber>>, r.exc, <<>>)
    /\ reads' = <<>>
    /\ UNCHANGED <<obj, labels>>

\* obj.get_swmm_results(itemtype, name, variableindex, period)
GetSwmmResults(itemtype, name, variableindex, period) ==
    /\ obj # NoSession
    /\ period \in 0..(obj.swmm_nperiods - 1)
    /\ \E r \in {get_swmm_results(obj, itemtype, name, variableindex, period)} :
          /\ obj' = [obj EXCEPT !.itemtype = r.itemtype]
          /\ last' = Call("get_swmm_results", obj.fp,
                          <<itemtype, name, variableindex, period>>, r.exc,
                          IF r.exc = "" THEN <<r.date, r.value>> ELSE <<>>)
          /\ reads' = r.reads
    /\ UNCHANGED <<VARCODE, VARCODE_OLD, labels>>

\* obj.get_dates()
GetDates ==
    /\ obj # NoSession
    /\ \E r \in {get_dates(obj)} :
          /\ last' = Call("get_dates", obj.fp, <<>>, r.exc, r.ret)
          /\ reads' = r.reads
    /\ UNCHANGED <<VARCODE, VARCODE_OLD, obj, labels>>

\* the caller adds a label to the list it will pass to extract or fast_extract
AddLabel(label) ==
    /\ Len(labels) < MaxLabels
    /\ labels' = Append(labels, label)
    /\ last' = NoCall
    /\ reads' = <<>>
    /\ UNCHANGED <<VARCODE, VARCODE_OLD, obj>>

\* listvariables(filename)
ListVariables(fname) ==
    /\ \E e \in {InitError(Disk[fname], VARCODE, VARCODE_OLD)} :
          IF e # ""
          THEN /\ last' = Call("listvariables", fname, <<>>, e, <<>>)
               /\ UNCHANGED <<VARCODE, VARCODE_OLD>>
          ELSE \E o \in {NewSession(fname, VARCODE, VARCODE_OLD)} :
               \E r \in {listvariables(o, Table(o.varcode, VARCODE, VARCODE_OLD))} :
               \E t \in {WithTable(o, r.table, VARCODE, VARCODE_OLD)} :
                  /\ Appended(t[1], t[2]) <= MaxAppended
                  /\ VARCODE' = t[1]
                  /\ VARCODE_OLD' = t[2]
                  /\ last' = [Call("listvariables", fname, <<>>, r.exc,
                                   IF r.exc = "" THEN r.collect ELSE <<>>)
                              EXCEPT !.session = o,
                                     !.opened = Snapshot(o, VARCODE, VARCODE_OLD)]
    /\ reads' = <<>>
    /\ UNCHANGED <<obj, labels>>

\* extract(filename, *labels)
Extract(fname) ==
    /\ labels # <<>>
    /\ \E e \in {InitError(Disk[fname], VARCODE, VARCODE_OLD)} :
          IF e # ""
          THEN /\ last' = Call("extract", fname, labels, e, <<>>)
               /\ reads' = <<>>
               /\ UNCHANGED <<VARCODE, VARCODE_OLD>>
          ELSE \E o \in {NewSession(fname, VARCODE, VARCODE_OLD)} :
               \E r \in {extract(o, Table(o.varcode, VARCODE, VARCODE_OLD), labels)} :
               \E t \in {WithTable(o, r.table, VARCODE, VARCODE_OLD)} :
                  /\ Appended(t[1], t[2]) <= MaxAppended
                  /\ VARCODE' = t[1]
                  /\ VARCODE_OLD' = t[2]
                  /\ last' = [Call("extract", fname, labels, r.exc, r.ret)
                              EXCEPT !.session = [o EXCEPT !.itemtype = r.itemtype],
                                     !.opened = Snapshot(o, VARCODE, VARCODE_OLD)]
                  /\ reads' = r.reads
    /\ labels' = <<>>
    /\ UNCHANGED obj

\* fast_extract(filename, *labels)
FastExtract(fname) ==
    /\ labels # <<>>
    /\ \E e \in {InitError(Disk[fname], VARCODE, VARCODE_OLD)} :
          IF e # ""
          THEN /\ last' = Call("fast_extract", fname, labels, e, <<>>)
               /\ reads' = <<>>
          ELSE \E o \in {NewSession(fname, VARCODE, VARCODE_OLD)} :
               \E r \in {fast_extract(o, VARCODE, labels)} :
                  /\ last' = [Call("fast_extract", fname, labels, r.exc, r.ret)
                              EXCEPT !.session = [o EXCEPT !.itemtype = r.itemtype],
                                     !.opened = Snapshot(o, VARCODE, VARCODE_OLD)]
                  /\ reads' = r.reads
    /\ labels' = <<>>
    /\ UNCHANGED <<VARCODE, VARCODE_OLD, obj>>

\* the files the callers of extract and fast_extract name
ExtractFiles == {"new.out", "old.out", "poll.out", "zero.out"}

\* a caller that works with a SwmmExtract object, and lists variables
Next ==
    \/ \E fname \in FileNames : Open(fname)
    \/ \E itemtype \in TypeTokens : TypeCheck(itemtype)
    \/ \E itemtype \in TypeTokens, itemname \in Names : NameCheck(itemtype, itemname)
    \/ \E typenumber \in UpdateTypes : UpdateVarCode(typenumber)
    \/ \E itemtype \in ResultTypes, name \in ResultNames, variableindex \in VarIndices,
          period \in 0..1 : GetSwmmResults(itemtype, name, variableindex, period)
    \/ GetDates
    \/ \E fname \in FileNames : ListVariables(fname)

Spec == Init /\ [][Next]_vars

\* a caller that extracts series with extract and fast_extract
NextExtract ==
    \/ \E label \in Labels : AddLabel(label)
    \/ \E fname \in ExtractFiles : Extract(fname)
    \/ \E fname \in ExtractFiles : FastExtract(fname)

SpecExtract == Init /\ [][NextExtract]_vars

\* the files and requests of a caller that extracts from several files with pollutants
IsolationFiles == {"new.out", "poll.out", "poll2.out"}

IsolationLabels ==
    { [type |-> "link", name |-> "B", var |-> 0],
      [type |-> "link", name |-> "B", var |-> 5],
      [type |-> "system", name |-> "Rainfall", var |-> 1] }

NextIsolation ==
    \/ \E label \in IsolationLabels : AddLabel(label)
    \/ \E fname \in IsolationFiles : Extract(fname)
    \/ \E fname \in IsolationFiles : FastExtract(fname)

SpecIsolation == Init /\ [][NextIsolation]_vars

----------------------------------------------------------------------------
(* Vocabulary of the properties *)

\* the number of a type given by its name, -1 when the name is none of the five
TypeNumber(typename) == IndexOf(itemlist, typename)

\* number of items of type t in a record (the system block is one item)
Count(o, t) ==
    CASE t = 0 -> o.swmm_nsubcatch
      [] t = 1 -> o.swmm_nnodes
      [] t = 2 -> o.swmm_nlinks
      [] OTHER -> 1

\* number of variables each item of type t has in a record
VarCount(o, t) ==
    CASE t = 0 -> o.swmm_nsubcatchvars
      [] t = 1 -> o.nnodevars
      [] t = 2 -> o.nlinkvars
      [] t = 4 -> o.nsystemvars
      [] OTHER -> 0

\* bytes of the blocks of the types that precede t in a record
TypeBase(o, t) ==
    o.RECORDSIZE * ((IF t > 0 THEN Count(o, 0) * VarCount(o, 0) ELSE 0) +
                    (IF t > 1 THEN Count(o, 1) * VarCount(o, 1) ELSE 0) +
                    (IF t > 2 THEN Count(o, 2) * VarCount(o, 2) ELSE 0))

\* type and name of a label are valid for session o
ValidItem(o, label) ==
    /\ TypeNumber(label.type) \in {0, 1, 2, 4}
    /\ label.name \in Range(o.names[TypeNumber(label.type)])

\* the variable index of a label is in range for its type
ValidVar(o, label) == label.var \in 0..(VarCount(o, TypeNumber(label.type)) - 1)

ValidRequest(o, label) == ValidItem(o, label) /\ ValidVar(o, label)

\* the (type, item index, variable index) triple a valid request resolves to
Triple(o, label) ==
    <<TypeNumber(label.type), IndexOf(o.names[TypeNumber(label.type)], label.name),
      label.var>>

\* the most recent call was extract / fast_extract on a file that opened
Extracted(op) == last.op = op /\ last.session # NoSession

\* the most recent call was get_swmm_results and it returned
GotResult == last.op = "get_swmm_results" /\ last.exc = ""

----------------------------------------------------------------------------
(* C1 *)

\* C1: for every valid file and every valid request (type among subcatchment, node,
\* link, system; name in that type's catalog; variable index in range), the value
\* fast_extract places in the request's column at period p is the value
\* get_swmm_results returns for the same request at period p, for every period.
C1_BulkEqualsRandomAccess ==
    (Extracted("fast_extract") /\ last.exc = "" /\
     \A k \in DOMAIN last.args : ValidRequest(last.session, last.args[k]))
    => \A k \in DOMAIN last.args, p \in 1..last.session.swmm_nperiods :
          last.ret.data[k][p] =
              get_swmm_results(last.session, IntTok(TypeNumber(last.args[k].type)),
                               last.args[k].name, last.args[k].var, p - 1).value

----------------------------------------------------------------------------
(* C2 *)

\* the two reads of a get_swmm_results call whose item term is itemOffset
ResultReads(o, t, variableindex, period, itemOffset) ==
    << [pos |-> o.startpos + period * o.bytesperperiod, n |-> 2 * o.RECORDSIZE],
       [pos |-> o.startpos + period * o.bytesperperiod + 2 * o.RECORDSIZE +
                TypeBase(o, t) + itemOffset + variableindex * o.RECORDSIZE,
        n |-> o.RECORDSIZE] >>

\* C2 as stated: for every type among subcatchment, node, link, system, every name
\* that resolves to itemIndex, every variable index and period, get_swmm_results
\* reads the date at recordsStart + period*bytesPerPeriod and the value at that
\* position + 2*recordSize + typeBase + itemIndex*varCount[type]*recordSize +
\* varIndex*recordSize.
C2_OffsetWithItemTermForEveryType ==
    GotResult =>
        LET t == last.args[1].int
            itemIndex == IndexOf(obj.names[t], last.args[2])
        IN  reads = ResultReads(obj, t, last.args[3], last.args[4],
                                itemIndex * VarCount(obj, t) * obj.RECORDSIZE)

\* C2, amended: the value is read at recordsStart + period*bytesPerPeriod +
\* 2*recordSize + typeBase + itemOffset + varIndex*recordSize, where itemOffset is
\* itemIndex*varCount[type]*recordSize for subcatchment, node and link, and 0 for
\* system, whatever index the name resolves to; the date is read at
\* recordsStart + period*bytesPerPeriod.
C2_OffsetItemTermExceptSystem ==
    GotResult =>
        LET t == last.args[1].int
            itemIndex == IndexOf(obj.names[t], last.args[2])
        IN  reads = ResultReads(obj, t, last.args[3], last.args[4],
                                IF t = 4 THEN 0
                                ELSE itemIndex * VarCount(obj, t) * obj.RECORDSIZE)

\* a system value was read, in the second period, under a name that resolves to
\* an index above 0
C2_SystemNameBeyondFirst ==
    /\ GotResult
    /\ last.args[1].int = 4
    /\ IndexOf(obj.names[4], last.args[2]) >= 1
    /\ last.args[4] = 1

----------------------------------------------------------------------------
(* C3 *)

BytesPerPeriodHolds(o) ==
    /\ o.RECORDSIZE = 4
    /\ o.bytesperperiod =
          o.RECORDSIZE * (2 + o.swmm_nsubcatch * o.swmm_nsubcatchvars
                            + o.swmm_nnodes * o.nnodevars
                            + o.swmm_nlinks * o.nlinkvars + o.nsystemvars)

\* C3: after a successful open, bytesPerPeriod = recordSize * (2 +
\* nSubcatch*nSubcatchVars + nNodes*nNodeVars + nLinks*nLinkVars + nSystemVars)
\* with recordSize = 4, in every state any later sequence of operations reaches,
\* for the session the caller holds and for the session of a listing call.
C3_BytesPerPeriod ==
    /\ obj # NoSession => BytesPerPeriodHolds(obj)
    /\ last.session # NoSession => BytesPerPeriodHolds(last.session)

\* a session on a file with pollutants, after update_var_code has extended a table
C3_SessionAfterUpdate ==
    /\ obj # NoSession
    /\ obj.swmm_npolluts > 0
    /\ last.op = "update_var_code" /\ last.exc = ""
    /\ Appended(VARCODE, VARCODE_OLD) > 0

----------------------------------------------------------------------------
(* C4 *)

\* C4: opening a file raises and produces no session whenever the magic number
\* at the start or in the trailer differs from 516114522, or the stored error
\* code is nonzero, or the period count is not greater than 0; when all four
\* conditions are satisfied none of these errors is raised.
C4_OpenValidates ==
    last.op = "open" =>
        LET f == Disk[last.file]
            bad == \/ f.magic1 # 516114522
                   \/ f.magic2 # 516114522
                   \/ f.errcode # 0
                   \/ ~(f.nperiods > 0)
        IN  IF bad THEN last.exc # "" /\ last.ret = NoSession
            ELSE last.exc # "ValueError"

----------------------------------------------------------------------------
(* C5 *)

\* C5: a request whose variable index is negative or >= varCount[type] makes
\* get_swmm_results, extract and fast_extract raise a lookup error without any
\* read of the file for that call (so no value of another item or variable is
\* returned for it).
C5_VariableIndexChecked ==
    /\ (last.op = "get_swmm_results" /\ IsIntTok(last.args[1]) /\
        last.args[1].int \in {0, 1, 2, 4} /\
        last.args[3] \notin 0..(VarCount(obj, last.args[1].int) - 1))
       => (last.exc # "" /\ reads = <<>>)
    /\ ((Extracted("extract") \/ Extracted("fast_extract")) /\
        \E k \in DOMAIN last.args :
            /\ ValidItem(last.session, last.args[k])
            /\ ~ValidVar(last.session, last.args[k]))
       => (last.exc # "" /\ reads = <<>>)

----------------------------------------------------------------------------
(* C6 *)

\* the type token is one of the five kinds, by number or by name
Recognized(tok) ==
    IF tok.str = "" THEN tok.int \in 0..4
    ELSE tok.str \in {"subcatchment", "node", "link", "pollutant", "system"}

\* the number of a recognized type token
KindNumber(tok) ==
    IF tok.str = "" THEN tok.int
    ELSE CASE tok.str = "subcatchment" -> 0
           [] tok.str = "node" -> 1
           [] tok.str = "link" -> 2
           [] tok.str = "pollutant" -> 3
           [] tok.str = "system" -> 4

\* C6: name_check(type, name) returns the smallest index i with
\* names[type][i] = name, 0 <= i < len(names[type]), for every recognized type
\* (number 0..4 or kind name) and every name of that type's list; it raises,
\* returning no index, exactly when the type is not recognized or the name is
\* absent from that type's list.
C6_NameCheckFirstIndex ==
    last.op = "name_check" =>
        LET tok == last.args[1]
            name == last.args[2]
        IN  IF Recognized(tok) /\ name \in Range(obj.names[KindNumber(tok)])
            THEN LET list == obj.names[KindNumber(tok)]
                     i == last.ret[2]
                 IN  /\ last.exc = ""
                     /\ last.ret[1] = name
                     /\ 0 <= i /\ i < Len(list)
                     /\ list[i + 1] = name
                     /\ \A j \in 0..(i - 1) : list[j + 1] # name
            ELSE last.exc # "" /\ last.ret = <<>>

\* name_check returned the index of a name that occurs twice in its type's list
C6_DuplicateNameResolved ==
    /\ last.op = "name_check" /\ last.exc = ""
    /\ LET list == obj.names[KindNumber(last.args[1])]
       IN  Cardinality({j \in 1..Len(list) : list[j] = last.args[2]}) >= 2

----------------------------------------------------------------------------
(* C7 *)

\* the ways to reorder a list
Reorderings(lbls) ==
    {[i \in DOMAIN lbls |-> lbls[f[i]]] :
        f \in {g \in [DOMAIN lbls -> DOMAIN lbls] : Range(g) = DOMAIN lbls}}

\* triple a comes before triple b, or is b
TripleLeq(a, b) ==
    \/ a[1] < b[1]
    \/ a[1] = b[1] /\ a[2] < b[2]
    \/ a[1] = b[1] /\ a[2] = b[2] /\ a[3] <= b[3]

\* where the value of a triple lies in a record, after the date: typeBase +
\* itemIndex*varCount[type]*recordSize + varIndex*recordSize
TripleOffset(o, t) ==
    TypeBase(o, t[1]) + t[2] * VarCount(o, t[1]) * o.RECORDSIZE + t[3] * o.RECORDSIZE

\* C7: for every list of valid requests and every permutation of it, fast_extract
\* returns the same table; the columns are in ascending (type, itemIndex,
\* varIndex) order and the values under the k-th column are those of the k-th
\* triple in that order.
C7_BulkTableIndependentOfOrder ==
    (Extracted("fast_extract") /\ last.exc = "" /\
     \A k \in DOMAIN last.args : ValidRequest(last.session, last.args[k]))
    => /\ \A other \in Reorderings(last.args) :
              LET r == fast_extract(last.session, VARCODE, other)
              IN  r.exc = "" /\ r.ret = last.ret
       /\ \E sorted \in Reorderings(last.args) :
              /\ \A k \in 1..(Len(sorted) - 1) :
                     TripleLeq(Triple(last.session, sorted[k]),
                               Triple(last.session, sorted[k + 1]))
              /\ \A k \in DOMAIN sorted :
                     /\ last.ret.columns[k][1] = sorted[k].type
                     /\ last.ret.columns[k][2] = sorted[k].name
                     /\ \A p \in 1..last.session.swmm_nperiods :
                            last.ret.data[k][p] =
                                FloatAt(Disk[last.file],
                                    last.session.startpos +
                                    (p - 1) * last.session.bytesperperiod +
                                    2 * last.session.RECORDSIZE +
                                    TripleOffset(last.session,
                                                 Triple(last.session, sorted[k])))

----------------------------------------------------------------------------
(* C8 *)

\* C8: for every list of valid requests fast_extract succeeds, and its table has
\* as many columns as there are distinct (type, itemIndex, varIndex) triples
\* among the requests: a triple requested twice yields one column, one name
\* requested with two variable indices yields two.
C8_BulkColumnsAreDistinctTriples ==
    (Extracted("fast_extract") /\
     \A k \in DOMAIN last.args : ValidRequest(last.session, last.args[k]))
    => /\ last.exc = ""
       /\ Len(last.ret.columns) =
              Cardinality({Triple(last.session, last.args[k]) : k \in DOMAIN last.args})

----------------------------------------------------------------------------
(* C9 *)

\* C9: in a call of extract or fast_extract, no period record is read before
\* every request of the list has passed type, name and variable-index
\* validation: with an invalid request in the list the call raises having read
\* nothing.
C9_ValidationBeforeReads ==
    ((Extracted("extract") \/ Extracted("fast_extract")) /\
     \E k \in DOMAIN last.args : ~ValidRequest(last.session, last.args[k]))
    => (last.exc # "" /\ reads = <<>>)

----------------------------------------------------------------------------
(* C10 *)

\* C10: after a successful open, no operation of the session (type_check,
\* name_check, update_var_code, get_swmm_results, get_dates, and the listing and
\* extraction calls built on them) changes the Geometry or the Catalog (names,
\* variable codes, code-to-label table) of the session from what open built.
C10_GeometryAndCatalogFrozen ==
    [][(obj # NoSession /\ last'.op # "open")
       => Snapshot(obj', VARCODE', VARCODE_OLD') = Snapshot(obj, VARCODE, VARCODE_OLD)]_vars

----------------------------------------------------------------------------
(* C11 *)

\* the table a session's file version selects, as the module is imported
NativeTable(o) == IF o.varcode = "VARCODE_OLD" THEN VARCODE_OLD_INIT ELSE VARCODE_INIT

\* C11: for subcatchment, node and link, however many times update_var_code has
\* been invoked for the type, the augmented variable table is the type's native
\* list followed by the pollutant names, each pollutant exactly once, the j-th
\* pollutant carrying code len(native list) + j.
C11_AugmentedTableHasPollutantsOnce ==
    (obj # NoSession /\ last.op = "update_var_code" /\ last.exc = "" /\
     last.args[1] \in {0, 1, 2})
    => LET t == last.args[1]
           table == Table(obj.varcode, VARCODE, VARCODE_OLD)[t]
           native == NativeTable(obj)[t]
       IN  /\ Len(table) = Len(native) + Len(obj.names[3])
           /\ \A c \in 1..Len(native) : table[c] = native[c]
           /\ \A j \in 1..Len(obj.names[3]) : table[Len(native) + j] = obj.names[3][j]

----------------------------------------------------------------------------
(* C12 *)

\* seconds from midnight of the date's day to the timestamp ts
SecondsFrom(date, ts) == (ts.days - date.days) * 86400 + ts.msec \div 1000

\* C12: in extract, for every integer seconds-of-day value s decoded from a
\* period date, the timestamp uses s-1 when s mod 10 = 1, s+1 when s mod 10 = 9
\* and s itself for every other residue.
C12_SecondsCorrection ==
    (Extracted("extract") /\ last.exc = "")
    => \A p \in 1..last.session.swmm_nperiods :
          LET date == DateAt(Disk[last.file], p - 1)
              sec == date.msec \div 1000
              ts == last.ret.index[p]
          IN  /\ ts.msec % 1000 = 0
              /\ SecondsFrom(date, ts) =
                    IF sec % 10 = 1 THEN sec - 1
                    ELSE IF sec % 10 = 9 THEN sec + 1
                    ELSE sec

\* extract returned a table for a file that has a period whose seconds end in 1
\* and a period whose seconds end in neither 0, 1 nor 9
C12_SecondsEndingInOne ==
    /\ Extracted("extract") /\ last.exc = ""
    /\ \E p \in 1..last.session.swmm_nperiods :
          (DateAt(Disk[last.file], p - 1).msec \div 1000) % 10 = 1
    /\ \E p \in 1..last.session.swmm_nperiods :
          (DateAt(Disk[last.file], p - 1).msec \div 1000) % 10 \notin {0, 1, 9}

----------------------------------------------------------------------------
(* C13 *)

\* C13: for every period p of a valid file, the timestamp fast_extract gives
\* row p is the timestamp extract gives period p: the date read at the same
\* offset, decoded and rounded by the same policy.
C13_BulkTimestampsAsExtract ==
    (Extracted("fast_extract") /\ last.exc = "")
    => /\ Len(last.ret.index) = last.session.swmm_nperiods
       /\ \A p \in 1..last.session.swmm_nperiods :
             /\ [pos |-> DateOffset(last.session, p - 1),
                 n |-> 2 * last.session.RECORDSIZE] \in Range(reads)
             /\ last.ret.index[p] =
                    extract(last.session,
                            Table(last.session.varcode, VARCODE, VARCODE_OLD),
                            <<[type |-> "system", name |-> last.session.names[4][1],
                               var |-> 0]>>).ret.index[p]

----------------------------------------------------------------------------
(* C14 *)

\* the column label extract produces for one request
ExtractColumn(o, vc, vco, label) ==
    extract(o, Table(o.varcode, vc, vco), <<label>>).ret.columns[1]

\* C14: for every list of valid requests (mixed types, pollutant-augmented
\* variables and pre-5100 files included) the label of each fast_extract column
\* is typeName, itemName, variableLabel of its own request: itemName the catalog
\* name at (type, itemIndex), variableLabel the label the session's
\* version-selected table gives to varIndex, the label extract produces.
C14_BulkColumnLabels ==
    (Extracted("fast_extract") /\ last.exc = "" /\
     \A k \in DOMAIN last.args : ValidRequest(last.session, last.args[k]))
    => \A k \in DOMAIN last.args :
          LET t == Triple(last.session, last.args[k]) IN
          /\ last.ret.columns[k][1] = last.args[k].type
          /\ last.ret.columns[k][2] = last.session.names[t[1]][t[2] + 1]
          /\ last.ret.columns[k] =
                 ExtractColumn(last.session, VARCODE, VARCODE_OLD, last.args[k])

----------------------------------------------------------------------------
(* C15 *)

\* the item indices fast_extract's name checks give the requests
ItemIndices(o, lbls) == [k \in DOMAIN lbls |-> Triple(o, lbls[k])[2]]

\* C15: the selection mask fast_extract builds has length bytesPerPeriod -
\* 2*recordSize, one entry per byte of a record's payload after the date; it is
\* built once for all periods, and its set entries are exactly the positions
\* o, o+1, o+2, o+3 for each requested value's in-record offset o = typeBase +
\* itemOffset + varOffset.
C15_MaskCoversPayload ==
    (Extracted("fast_extract") /\
     \A k \in DOMAIN last.args : ValidRequest(last.session, last.args[k]))
    => LET o == last.session
           mask == BoolMask(o, AllOffsets(o, last.args, ItemIndices(o, last.args)))
       IN  /\ MaskLength(o) = o.bytesperperiod - 2 * o.RECORDSIZE
           /\ mask = {TripleOffset(o, Triple(o, last.args[k])) + i :
                         k \in DOMAIN last.args, i \in 0..3}

----------------------------------------------------------------------------
(* C16 *)

\* where the payload of period p starts: recordsStart + p*bytesPerPeriod + 2*recordSize
PayloadStart(o, p) == o.startpos + p * o.bytesperperiod + 2 * o.RECORDSIZE

\* C16: for every period p in 0..nPeriods-1 of a fast_extract call with valid
\* requests that has built its mask (no IndexError) and so enters the loop over
\* the periods, the mapped window starts at a multiple of the allocation granularity,
\* the largest one not exceeding the payload start of p; the padded mask is as
\* long as the mapped window; and the bytes the padded mask selects from the
\* window are exactly the file bytes at payloadStart(p) + o + k for each
\* requested in-record offset o and k in 0..3.
C16_AlignedWindowSelectsPayloadBytes ==
    (Extracted("fast_extract") /\ last.exc # "IndexError" /\
     \A k \in DOMAIN last.args : ValidRequest(last.session, last.args[k]))
    => LET o == last.session
           mask == BoolMask(o, AllOffsets(o, last.args, ItemIndices(o, last.args)))
       IN  \A p \in 0..(o.swmm_nperiods - 1) :
              /\ Len(reads) > p
              /\ reads[p + 1] = [pos |-> Window(o, p).mmap_offset,
                                 n |-> Window(o, p).mmap_length]
              /\ reads[p + 1].pos % ALLOCATIONGRANULARITY = 0
              /\ reads[p + 1].pos <= PayloadStart(o, p)
              /\ PayloadStart(o, p) - reads[p + 1].pos < ALLOCATIONGRANULARITY
              /\ PaddedMaskLength(o, p) = reads[p + 1].n
              /\ \A x \in Range(PaddedMask(o, mask, p)) : x >= 0 /\ x < reads[p + 1].n
              /\ {reads[p + 1].pos + x : x \in Range(PaddedMask(o, mask, p))} =
                     {PayloadStart(o, p) + TripleOffset(o, Triple(o, last.args[k])) + i :
                         k \in DOMAIN last.args, i \in 0..3}

\* a fast_extract call returned a table of two columns and several periods, and
\* the window of some period starts before its payload
C16_WindowStartsBeforePayload ==
    /\ Extracted("fast_extract") /\ last.exc = ""
    /\ Len(last.args) = 2
    /\ \A k \in DOMAIN last.args : ValidRequest(last.session, last.args[k])
    /\ last.session.swmm_nperiods >= 2
    /\ \E p \in 0..(last.session.swmm_nperiods - 1) :
          /\ Window(last.session, p).mmap_start_gap > 0
          /\ reads[p + 1].pos < PayloadStart(last.session, p)

----------------------------------------------------------------------------
(* C17 *)

\* the outcome [exc, ret] of op(fname, *args) in a process where no session ran before
FreshOutcome(op, fname, args) ==
    LET o == NewSession(fname, VARCODE_INIT, VARCODE_OLD_INIT)
        r == IF op = "extract"
             THEN extract(o, Table(o.varcode, VARCODE_INIT, VARCODE_OLD_INIT), args)
             ELSE fast_extract(o, VARCODE_INIT, args)
    IN  [exc |-> r.exc, ret |-> r.ret]

\* C17: sessions are isolated: what extract and fast_extract return for a file
\* (the column labels taken from the variable-code table among it) depends
\* only on that file and the requests, and is what the same call returns in a
\* process where no other session was opened, extracted from or listed before.
C17_SessionsIsolated ==
    \A op \in {"extract", "fast_extract"} :
        Extracted(op)
        => [exc |-> last.exc, ret |-> last.ret] = FreshOutcome(op, last.file, last.args)

====
